---- MODULE Spec2Model ----
(***************************************************************************)
(* firesale: the command resolver of src/main.rs.  One process run is      *)
(* modelled: the process environment and the command line are the inputs,  *)
(* main() reads the environment, parses and resolves the arguments, builds *)
(* the database context and dispatches to one handler.                     *)
(***************************************************************************)
EXTENDS Integers, Sequences, FiniteSets, TLC

VARIABLES
    osEnv,          \* the process environment: variable name -> Option<String>
    argv,           \* the command line after the program name, a sequence of tokens
    pc,             \* position of main: start, gathered, parsed, context, exited
    environment,    \* main's `environment` (gather_environment's result)
    options,        \* main's `options` (first component of setup_arguments' result)
    entrypoint,     \* main's `entrypoint` (second component of setup_arguments' result)
    context,        \* main's `context`, the value DatabaseContext::new returned
    error,          \* the Err(String) main returned, None if it returned none
    newCalls,       \* arguments of every DatabaseContext::new call, in order
    handlerCalls,   \* every entrypoint::handle_* call, in order
    trace,          \* the steps of main taken so far, in order
    outcome,        \* why the process ended: running, clap_error, clap_help, panic, ...
    exit_status     \* the process exit status, None while running

vars == <<osEnv, argv, pc, environment, options, entrypoint, context, error,
          newCalls, handlerCalls, trace, outcome, exit_status>>

----------------------------------------------------------------------------
\* Option<T>
None == <<>>
Some(v) == <<v>>
is_some(o) == o # None
is_none(o) == o = None

\* src/main.rs constants
GOOGLE_APPLICATION_CREDENTIALS_KEY == "GOOGLE_APPLICATION_CREDENTIALS"
PROJECT_ID_KEY == "PROJECT_ID"
APP_NAME == "firesale"
CREDENTIALS_LOCATION_ARG == "credentials"
PROJECT_ID_ARG == "project_id"
GET_SUB_COMMAND == "get"
DELETE_SUB_COMMAND == "delete"
COLLECTION_NAME == "collection"
DOCUMENT_NAME == "document"
HELP_FLAG == "--help"

\* Bounds of the inputs
MaxArgs == 4
Words == {"a", "b"}
Tokens == Words \cup {GET_SUB_COMMAND, DELETE_SUB_COMMAND, HELP_FLAG}
Argvs == UNION {[1..n -> Tokens] : n \in 0..MaxArgs}
EnvProjectIds == {None, Some("a"), Some("ep")}
EnvCredentials == {None, Some("b"), Some("ek")}

----------------------------------------------------------------------------
\* struct Environment
Environment(service_account_path, project_id) ==
    [service_account_path |-> service_account_path, project_id |-> project_id]

\* gather_environment: env::var(KEY).ok() for the two keys
gather_environment(env) ==
    Environment(env[GOOGLE_APPLICATION_CREDENTIALS_KEY], env[PROJECT_ID_KEY])

----------------------------------------------------------------------------
\* The clap grammar of setup_arguments and its parse of the command line.

\* Index of the first token of toks that is in S, Len(toks)+1 if there is none
FirstIn(toks, S) ==
    IF \E i \in 1..Len(toks) : toks[i] \in S
    THEN CHOOSE i \in 1..Len(toks) :
            toks[i] \in S /\ \A j \in 1..(i-1) : toks[j] \notin S
    ELSE Len(toks) + 1

\* The i-th positional value of vals, absent if fewer were given
Positional(vals, i) == IF i <= Len(vals) THEN Some(vals[i]) ELSE None

\* Faulty variant of RequiredArgs: neither top-level argument is ever required
RequiredArgs_Never(environ) == {}

\* The arguments each App requires: the two top-level arguments are required
\* exactly when the environment lacks them; a subcommand requires its collection.
RequiredArgs(environ) ==
    (IF is_none(environ.project_id) THEN {PROJECT_ID_ARG} ELSE {})
    \cup (IF is_none(environ.service_account_path) THEN {CREDENTIALS_LOCATION_ARG} ELSE {})

\* Variant of SubRequiredArgs: the document is marked required as well
SubRequiredArgs_DocumentRequired == {COLLECTION_NAME, DOCUMENT_NAME}

SubRequiredArgs == {COLLECTION_NAME}

MissingRequired(args, required) == \E a \in required : is_none(args[a])

\* Parse of a subcommand's tokens: two positionals, collection then document.
SubCommandMatches(name, toks) ==
    LET h    == FirstIn(toks, {HELP_FLAG})
        vals == SubSeq(toks, 1, h - 1)
        args == (COLLECTION_NAME :> Positional(vals, 1))
                @@ (DOCUMENT_NAME :> Positional(vals, 2))
    IN  IF Len(vals) > 2 THEN [kind |-> "error"]
        ELSE IF h <= Len(toks) THEN [kind |-> "help"]
        ELSE IF MissingRequired(args, SubRequiredArgs) THEN [kind |-> "error"]
        ELSE [kind |-> "ok", name |-> name, args |-> args]

\* App::new(..)...get_matches(): two top-level positionals, project id then
\* credentials, and the subcommands get and delete.  The result is a usage
\* error (exit 1), a help display (exit 0) or the ArgMatches.
get_matches(environ, toks) ==
    LET s    == FirstIn(toks, {GET_SUB_COMMAND, DELETE_SUB_COMMAND, HELP_FLAG})
        vals == SubSeq(toks, 1, s - 1)
        args == (PROJECT_ID_ARG :> Positional(vals, 1))
                @@ (CREDENTIALS_LOCATION_ARG :> Positional(vals, 2))
        sub  == IF s <= Len(toks) /\ toks[s] # HELP_FLAG
                THEN SubCommandMatches(toks[s], SubSeq(toks, s + 1, Len(toks)))
                ELSE [kind |-> "none"]
    IN  IF Len(vals) > 2 THEN [kind |-> "error"]
        ELSE IF s <= Len(toks) /\ toks[s] = HELP_FLAG THEN [kind |-> "help"]
        ELSE IF sub.kind \in {"error", "help"} THEN [kind |-> sub.kind]
        ELSE IF MissingRequired(args, RequiredArgs(environ)) THEN [kind |-> "error"]
        ELSE [kind |-> "ok", args |-> args,
              subcommand |-> IF sub.kind = "ok"
                             THEN Some([name |-> sub.name, args |-> sub.args])
                             ELSE None]

\* ArgMatches accessors
value_of(matches, name) == matches.args[name]
is_present(matches, name) == is_some(matches.args[name])
subcommand_matches(matches, name) ==
    IF is_some(matches.subcommand) /\ matches.subcommand[1].name = name
    THEN matches.subcommand
    ELSE None

\* matches.usage(): the usage line clap generates for the App
usage(environ) == [usage |-> APP_NAME, required |-> RequiredArgs(environ)]

----------------------------------------------------------------------------
\* Option::unwrap panics on None
Panic == [panic |-> "called Option::unwrap() on a None value"]
IsPanic(v) == v = Panic

\* Faulty variant of DocumentQuery::from_sub_matches: the two names swapped
DocumentQuery_from_sub_matches_Swapped(matches) ==
    IF is_none(value_of(matches, COLLECTION_NAME)) \/ is_none(value_of(matches, DOCUMENT_NAME))
    THEN Panic
    ELSE [collection_name |-> value_of(matches, DOCUMENT_NAME)[1],
          document_name |-> value_of(matches, COLLECTION_NAME)[1]]

\* DocumentQuery::from_sub_matches
DocumentQuery_from_sub_matches(matches) ==
    IF is_none(value_of(matches, COLLECTION_NAME)) \/ is_none(value_of(matches, DOCUMENT_NAME))
    THEN Panic
    ELSE [collection_name |-> value_of(matches, COLLECTION_NAME)[1],
          document_name |-> value_of(matches, DOCUMENT_NAME)[1]]

\* CollectionQuery::from_sub_matches
CollectionQuery_from_sub_matches(matches) ==
    IF is_none(value_of(matches, COLLECTION_NAME))
    THEN Panic
    ELSE [collection_name |-> value_of(matches, COLLECTION_NAME)[1]]

\* enum EntryPoint
GetDocument(query) == [tag |-> "GetDocument", query |-> query]
ViewCollection(query) == [tag |-> "ViewCollection", query |-> query]
DeleteDocument(query) == [tag |-> "DeleteDocument", query |-> query]
Usage(text) == [tag |-> "Usage", text |-> text]

\* get_command.is_present(DOCUMENT_NAME), the test of the get branch
GetSelectsDocument(get_command) == is_present(get_command, DOCUMENT_NAME)

\* Faulty variant of ResolveEntryPoint: without a subcommand the first top-level
\* value is taken as a collection to view instead of selecting Usage
ResolveEntryPoint_DefaultView(environ, matches) ==
    LET get_command    == subcommand_matches(matches, GET_SUB_COMMAND)
        delete_command == subcommand_matches(matches, DELETE_SUB_COMMAND)
    IN  IF is_some(get_command)
        THEN IF GetSelectsDocument(get_command[1])
             THEN GetDocument(DocumentQuery_from_sub_matches(get_command[1]))
             ELSE ViewCollection(CollectionQuery_from_sub_matches(get_command[1]))
        ELSE IF is_some(delete_command)
        THEN DeleteDocument(DocumentQuery_from_sub_matches(delete_command[1]))
        ELSE ViewCollection([collection_name |-> APP_NAME])

\* The rest of setup_arguments, after get_matches returned: the CLI-defined
\* Environment and the entry point; Panic if a query's unwrap panics.
ResolveEntryPoint(environ, matches) ==
    LET get_command    == subcommand_matches(matches, GET_SUB_COMMAND)
        delete_command == subcommand_matches(matches, DELETE_SUB_COMMAND)
    IN  IF is_some(get_command)
        THEN IF GetSelectsDocument(get_command[1])
             THEN GetDocument(DocumentQuery_from_sub_matches(get_command[1]))
             ELSE ViewCollection(CollectionQuery_from_sub_matches(get_command[1]))
        ELSE IF is_some(delete_command)
        THEN DeleteDocument(DocumentQuery_from_sub_matches(delete_command[1]))
        ELSE Usage(usage(environ))

CliEnvironment(matches) ==
    Environment(value_of(matches, CREDENTIALS_LOCATION_ARG), value_of(matches, PROJECT_ID_ARG))

setup_arguments(environ, matches) ==
    LET ep == ResolveEntryPoint(environ, matches)
    IN  IF ep.tag # "Usage" /\ IsPanic(ep.query)
        THEN Panic
        ELSE [options |-> [environment |-> CliEnvironment(matches)], entrypoint |-> ep]

----------------------------------------------------------------------------
\* Result<T, String>
Ok(v) == [ok |-> TRUE, value |-> v]
Err(e) == [ok |-> FALSE, err |-> e]

\* The message of main's own Err, when no source yields a complete pair
CONTEXT_ERROR ==
    "Failed to create database context, not provided in environment variables or cli args"

\* DatabaseContext::new(project_id, service_account_path) of libfiresale: a
\* context holding its two arguments, or a failure with a string error.
DatabaseContext_new(project_id, service_account_path) ==
    {Ok([project_id |-> project_id, service_account_path |-> service_account_path]),
     Err("DatabaseContext::new failed")}

\* entrypoint::handle_document_get / handle_document_view / handle_document_delete:
\* opaque operations that return Ok(()) or an error string.
HandlerResults == {Ok(<<>>), Err("handler failed")}

\* Faulty variant of ResolveCredentials: the environment pair is tried first
ResolveCredentials_EnvFirst(cli, env) ==
    IF is_some(env.service_account_path) /\ is_some(env.project_id)
    THEN [source |-> "environment", project_id |-> env.project_id[1],
          service_account_path |-> env.service_account_path[1]]
    ELSE IF is_some(cli.service_account_path) /\ is_some(cli.project_id)
    THEN [source |-> "cli", project_id |-> cli.project_id[1],
          service_account_path |-> cli.service_account_path[1]]
    ELSE [source |-> "none"]

\* Faulty variant of ResolveCredentials: no fallback to the environment pair
ResolveCredentials_CliOnly(cli, env) ==
    IF is_some(cli.service_account_path) /\ is_some(cli.project_id)
    THEN [source |-> "cli", project_id |-> cli.project_id[1],
          service_account_path |-> cli.service_account_path[1]]
    ELSE [source |-> "none"]

\* Faulty variant of ResolveCredentials: each field is taken from the command
\* line if given there and from the environment otherwise
ResolveCredentials_Mixed(cli, env) ==
    LET p == IF is_some(cli.project_id) THEN cli.project_id ELSE env.project_id
        c == IF is_some(cli.service_account_path) THEN cli.service_account_path
             ELSE env.service_account_path
    IN  IF is_some(p) /\ is_some(c)
        THEN [source |-> "mixed", project_id |-> p[1], service_account_path |-> c[1]]
        ELSE [source |-> "none"]

\* The (Some, Some) patterns of main's `context` block: the CLI pair if it is
\* complete, else the environment pair if it is complete, else none.
ResolveCredentials(cli, env) ==
    IF is_some(cli.service_account_path) /\ is_some(cli.project_id)
    THEN [source |-> "cli", project_id |-> cli.project_id[1],
          service_account_path |-> cli.service_account_path[1]]
    ELSE IF is_some(env.service_account_path) /\ is_some(env.project_id)
    THEN [source |-> "environment", project_id |-> env.project_id[1],
          service_account_path |-> env.service_account_path[1]]
    ELSE [source |-> "none"]

\* Faulty variant of HandlerOf: the get and delete handlers exchanged
HandlerOf_Swapped(ep) ==
    CASE ep.tag = "GetDocument"    -> Some("handle_document_delete")
      [] ep.tag = "ViewCollection" -> Some("handle_document_view")
      [] ep.tag = "DeleteDocument" -> Some("handle_document_get")
      [] OTHER                     -> None

\* The handler main's match selects for an entry point, None for the `_` arm
HandlerOf(ep) ==
    CASE ep.tag = "GetDocument"    -> Some("handle_document_get")
      [] ep.tag = "ViewCollection" -> Some("handle_document_view")
      [] ep.tag = "DeleteDocument" -> Some("handle_document_delete")
      [] OTHER                     -> None

\* Faulty variant of ExitStatus: the handler's Result is dropped and main
\* returns Ok(()) after dispatch
ExitStatus_HandlerIgnored(how) ==
    CASE how = "clap_error"    -> 1
      [] how = "clap_help"     -> 0
      [] how = "panic"         -> 101
      [] how = "context_error" -> 1
      [] how = "handler_error" -> 0
      [] how = "ok"            -> 0

\* The exit status of the process for each way it ends: clap's Error::exit,
\* a panic of the main thread, and main's returned Result.
ExitStatus(how) ==
    CASE how = "clap_error"    -> 1
      [] how = "clap_help"     -> 0
      [] how = "panic"         -> 101
      [] how = "context_error" -> 1
      [] how = "handler_error" -> 1
      [] how = "ok"            -> 0

----------------------------------------------------------------------------
\* Values of main's locals before their `let`
Unbound == [unbound |-> TRUE]

Init ==
    /\ osEnv \in {(GOOGLE_APPLICATION_CREDENTIALS_KEY :> c) @@ (PROJECT_ID_KEY :> p) :
                     c \in EnvCredentials, p \in EnvProjectIds}
    /\ argv \in Argvs
    /\ pc = "start"
    /\ environment = Unbound
    /\ options = Unbound
    /\ entrypoint = Unbound
    /\ context = None
    /\ error = None
    /\ newCalls = <<>>
    /\ handlerCalls = <<>>
    /\ trace = <<>>
    /\ outcome = "running"
    /\ exit_status = None

\* The process ends
Exit(how) ==
    /\ pc' = "exited"
    /\ outcome' = how
    /\ exit_status' = Some(ExitStatus(how))

\* main: let environment = gather_environment();
GatherEnvironment ==
    /\ pc = "start"
    /\ environment' = gather_environment(osEnv)
    /\ trace' = Append(trace, "gather_environment")
    /\ pc' = "gathered"
    /\ UNCHANGED <<osEnv, argv, options, entrypoint, context, error, newCalls,
                   handlerCalls, outcome, exit_status>>

\* main: let (options, entrypoint) = setup_arguments(&environment);
\* clap ends the process on a usage error or a help display; an unwrap of an
\* absent value panics; otherwise the pair is bound.
SetupArguments ==
    /\ pc = "gathered"
    /\ trace' = Append(trace, "setup_arguments")
    /\ LET m == get_matches(environment, argv)
       IN  \/ /\ m.kind = "error"
              /\ Exit("clap_error")
              /\ UNCHANGED <<options, entrypoint>>
           \/ /\ m.kind = "help"
              /\ Exit("clap_help")
              /\ UNCHANGED <<options, entrypoint>>
           \/ /\ m.kind = "ok"
              /\ IsPanic(setup_arguments(environment, m))
              /\ Exit("panic")
              /\ UNCHANGED <<options, entrypoint>>
           \/ /\ m.kind = "ok"
              /\ ~IsPanic(setup_arguments(environment, m))
              /\ options' = setup_arguments(environment, m).options
              /\ entrypoint' = setup_arguments(environment, m).entrypoint
              /\ pc' = "parsed"
              /\ UNCHANGED <<outcome, exit_status>>
    /\ UNCHANGED <<osEnv, argv, environment, context, error, newCalls, handlerCalls>>

\* main: let context = { ... }?;  with a complete pair DatabaseContext::new is
\* called and its error, if any, is returned by `?`; with none main returns
\* its own error.
ConstructContext ==
    /\ pc = "parsed"
    /\ trace' = Append(trace, "context")
    /\ LET r == ResolveCredentials(options.environment, environment)
       IN  \/ /\ r.source # "none"
              /\ newCalls' = Append(newCalls, <<r.project_id, r.service_account_path>>)
              /\ \E res \in DatabaseContext_new(r.project_id, r.service_account_path) :
                    \/ /\ res.ok
                       /\ context' = Some(res.value)
                       /\ pc' = "context"
                       /\ UNCHANGED <<error, outcome, exit_status>>
                    \/ /\ ~res.ok
                       /\ error' = Some(res.err)
                       /\ Exit("context_error")
                       /\ UNCHANGED context
           \/ /\ r.source = "none"
              /\ error' = Some(CONTEXT_ERROR)
              /\ Exit("context_error")
              /\ UNCHANGED <<context, newCalls>>
    /\ UNCHANGED <<osEnv, argv, environment, options, entrypoint, handlerCalls>>

\* main: match entrypoint { ... }: the selected handler is called with the query
\* and the context and its Result is main's; any other entry point is Ok(()).
Dispatch ==
    /\ pc = "context"
    /\ trace' = Append(trace, "dispatch")
    /\ \/ /\ is_some(HandlerOf(entrypoint))
          /\ handlerCalls' = Append(handlerCalls,
                [handler |-> HandlerOf(entrypoint)[1], query |-> entrypoint.query,
                 context |-> context[1]])
          /\ \E res \in HandlerResults :
                \/ /\ res.ok
                   /\ Exit("ok")
                   /\ UNCHANGED error
                \/ /\ ~res.ok
                   /\ error' = Some(res.err)
                   /\ Exit("handler_error")
       \/ /\ is_none(HandlerOf(entrypoint))
          /\ Exit("ok")
          /\ UNCHANGED <<handlerCalls, error>>
    /\ UNCHANGED <<osEnv, argv, environment, options, entrypoint, context, newCalls>>

Next == GatherEnvironment \/ SetupArguments \/ ConstructContext \/ Dispatch

Spec == Init /\ [][Next]_vars

----------------------------------------------------------------------------
\* The inputs of a run, read off the command line and the process environment

\* The words given on the command line before any subcommand or flag
CliWords == SubSeq(argv, 1, FirstIn(argv, {GET_SUB_COMMAND, DELETE_SUB_COMMAND, HELP_FLAG}) - 1)
CliProjectId == IF Len(CliWords) >= 1 THEN Some(CliWords[1]) ELSE None
CliCredentials == IF Len(CliWords) >= 2 THEN Some(CliWords[2]) ELSE None
CliHasPair == is_some(CliProjectId) /\ is_some(CliCredentials)
EnvProjectId == osEnv[PROJECT_ID_KEY]
EnvCredentialsPath == osEnv[GOOGLE_APPLICATION_CREDENTIALS_KEY]
EnvHasPair == is_some(EnvProjectId) /\ is_some(EnvCredentialsPath)

\* The subcommand named on the command line and the words after it
SubIndex == FirstIn(argv, {GET_SUB_COMMAND, DELETE_SUB_COMMAND, HELP_FLAG})
HasSubcommand == SubIndex <= Len(argv) /\ argv[SubIndex] # HELP_FLAG
SubWords == SubSeq(argv, SubIndex + 1, Len(argv))

\* Steps of main
Did(step) == \E i \in 1..Len(trace) : trace[i] = step
ParsePassed == Did("setup_arguments") /\ outcome \notin {"clap_error", "clap_help", "panic"}
ParseFailed == Did("setup_arguments") /\ outcome \in {"clap_error", "panic"}
ContextFailed == Did("context") /\ outcome = "context_error"
ResolutionFailed == ContextFailed /\ error = Some(CONTEXT_ERROR)

----------------------------------------------------------------------------
\* C1: in every run that passes argument parsing and whose command line gives
\* both a project id and a credentials path, the database context is constructed
\* with exactly that pair, whatever the two environment variables hold.
C1_CliPairTakesPrecedence ==
    (ParsePassed /\ CliHasPair) =>
        /\ ~Did("context") => newCalls = <<>>
        /\ Did("context") => newCalls = << <<CliProjectId[1], CliCredentials[1]>> >>

C1_Witness ==
    /\ pc = "context"
    /\ CliHasPair /\ EnvHasPair
    /\ EnvProjectId # CliProjectId /\ EnvCredentialsPath # CliCredentials
    /\ context = Some([project_id |-> CliProjectId[1],
                       service_account_path |-> CliCredentials[1]])

\* C2: in every run that passes argument parsing with both environment variables
\* set and fewer than two CLI values, the database context is constructed with
\* exactly the environment pair; a single CLI value is not used.
C2_EnvironmentPairFallback ==
    (ParsePassed /\ EnvHasPair /\ ~CliHasPair) =>
        /\ ~Did("context") => newCalls = <<>>
        /\ Did("context") => newCalls = << <<EnvProjectId[1], EnvCredentialsPath[1]>> >>

C2_Witness ==
    /\ pc = "context"
    /\ EnvHasPair /\ is_some(CliProjectId) /\ is_none(CliCredentials)
    /\ CliProjectId # EnvProjectId
    /\ newCalls = << <<EnvProjectId[1], EnvCredentialsPath[1]>> >>

\* C3: when neither the command line nor the environment gives a complete pair,
\* the constructor is never called, no handler is ever invoked, and context
\* construction ends the run with a non-empty error string, whatever the entry point.
C3_NoPairFails ==
    (~CliHasPair /\ ~EnvHasPair) =>
        /\ newCalls = <<>>
        /\ handlerCalls = <<>>
        /\ context = None
        /\ Did("context") =>
              /\ pc = "exited" /\ outcome = "context_error"
              /\ is_some(error) /\ error[1] # ""
              /\ exit_status # Some(0)

C3_Witness ==
    /\ ~CliHasPair /\ ~EnvHasPair
    /\ Did("context")
    /\ entrypoint.tag = "GetDocument"
    /\ outcome = "context_error"

\* C4: every pair passed to the database-context constructor is the complete
\* CLI pair or the complete environment pair, never one field from each.
C4_NeverMixed ==
    \A i \in 1..Len(newCalls) :
        \/ CliHasPair /\ newCalls[i] = <<CliProjectId[1], CliCredentials[1]>>
        \/ EnvHasPair /\ newCalls[i] = <<EnvProjectId[1], EnvCredentialsPath[1]>>

C4_Witness ==
    /\ Len(newCalls) = 1
    /\ EnvHasPair /\ is_some(CliProjectId) /\ is_none(CliCredentials)
    /\ CliProjectId # EnvProjectId
    /\ newCalls[1][1] = EnvProjectId[1]

\* C5: the entry point is decided by the subcommand and the presence of the
\* document: get c d selects GetDocument(c, d), get c selects ViewCollection(c),
\* delete c d selects DeleteDocument(c, d), with the names as given.
C5_EntryPointSelection ==
    (ParsePassed /\ HasSubcommand) =>
        /\ (argv[SubIndex] = GET_SUB_COMMAND /\ Len(SubWords) = 2) =>
              entrypoint = [tag |-> "GetDocument",
                            query |-> [collection_name |-> SubWords[1],
                                       document_name |-> SubWords[2]]]
        /\ (argv[SubIndex] = GET_SUB_COMMAND /\ Len(SubWords) = 1) =>
              entrypoint = [tag |-> "ViewCollection",
                            query |-> [collection_name |-> SubWords[1]]]
        /\ (argv[SubIndex] = DELETE_SUB_COMMAND /\ Len(SubWords) = 2) =>
              entrypoint = [tag |-> "DeleteDocument",
                            query |-> [collection_name |-> SubWords[1],
                                       document_name |-> SubWords[2]]]
        /\ Len(SubWords) \in {1, 2}

C5_Witness ==
    /\ ParsePassed /\ HasSubcommand
    /\ argv[SubIndex] = DELETE_SUB_COMMAND
    /\ entrypoint = DeleteDocument([collection_name |-> "a", document_name |-> "b"])

\* C6: a run whose command line names neither get nor delete selects
\* Usage(help text) if it passes parsing, and never invokes a handler.
C6_UsageNoHandler ==
    ~HasSubcommand =>
        /\ handlerCalls = <<>>
        /\ ParsePassed =>
              /\ entrypoint.tag = "Usage"
              /\ entrypoint.text = usage(environment)

C6_Witness ==
    /\ ~HasSubcommand
    /\ pc = "exited" /\ Did("dispatch")
    /\ entrypoint.tag = "Usage"

\* C7 as stated: the exit status is non-zero when argument parsing or context
\* construction fails, and zero in every other run.
C7_Original ==
    pc = "exited" =>
        /\ (ParseFailed \/ ContextFailed) => exit_status # Some(0)
        /\ ~(ParseFailed \/ ContextFailed) => exit_status = Some(0)

\* C7 amended: the exit status is non-zero when argument parsing fails, context
\* construction fails or the invoked handler returns an error, and zero in
\* every other run.
C7_ExitStatus ==
    pc = "exited" =>
        LET handlerFailed == handlerCalls # <<>> /\ is_some(error)
        IN  /\ (ParseFailed \/ ContextFailed \/ handlerFailed) =>
                  is_some(exit_status) /\ exit_status # Some(0)
            /\ ~(ParseFailed \/ ContextFailed \/ handlerFailed) => exit_status = Some(0)

C7_Witness ==
    /\ pc = "exited"
    /\ handlerCalls # <<>> /\ is_some(error)
    /\ exit_status = Some(1)

\* C8: the steps of main happen in the order environment read, argument parse,
\* context construction, dispatch; at most one handler is invoked, once, by
\* dispatch and after the context was constructed, and it is the handler of the
\* entry point with the entry point's query; Usage invokes none.
C8_OrderAndSingleHandler ==
    /\ \E n \in 0..4 :
          trace = SubSeq(<<"gather_environment", "setup_arguments", "context", "dispatch">>, 1, n)
    /\ Len(handlerCalls) <= 1
    /\ handlerCalls # <<>> =>
          /\ Did("dispatch") /\ is_some(context)
          /\ Len(newCalls) = 1
          /\ handlerCalls[1].context = context[1]
          /\ handlerCalls[1].query = entrypoint.query
          /\ entrypoint.tag = "GetDocument" => handlerCalls[1].handler = "handle_document_get"
          /\ entrypoint.tag = "ViewCollection" => handlerCalls[1].handler = "handle_document_view"
          /\ entrypoint.tag = "DeleteDocument" => handlerCalls[1].handler = "handle_document_delete"
          /\ entrypoint.tag \in {"GetDocument", "ViewCollection", "DeleteDocument"}
    /\ (Did("dispatch") /\ entrypoint.tag # "Usage") => Len(handlerCalls) = 1

C8_Witness ==
    /\ Len(trace) = 4
    /\ entrypoint.tag = "DeleteDocument"
    /\ handlerCalls = << [handler |-> "handle_document_delete",
                          query |-> [collection_name |-> "b", document_name |-> "a"],
                          context |-> context[1]] >>

\* C9: a delete with a collection and no document, on a command line whose
\* top-level arguments meet the grammar, raises no usage error; the run panics
\* in argument resolution, before context construction, and no handler runs.
DeleteWithoutDocument ==
    /\ HasSubcommand /\ argv[SubIndex] = DELETE_SUB_COMMAND
    /\ Len(SubWords) = 1 /\ SubWords[1] # HELP_FLAG
    /\ Len(CliWords) <= 2
    /\ is_none(EnvProjectId) => is_some(CliProjectId)
    /\ is_none(EnvCredentialsPath) => is_some(CliCredentials)

C9_DeleteWithoutDocumentPanics ==
    DeleteWithoutDocument =>
        /\ outcome \notin {"clap_error", "clap_help"}
        /\ ~Did("context") /\ newCalls = <<>> /\ handlerCalls = <<>>
        /\ Did("setup_arguments") =>
              /\ pc = "exited" /\ outcome = "panic"
              /\ exit_status \notin {None, Some(0)}
              /\ entrypoint = Unbound

C9_Witness ==
    /\ DeleteWithoutDocument
    /\ outcome = "panic"
    /\ trace = <<"gather_environment", "setup_arguments">>

\* C10: after a successful parse each of the two fields is available from the
\* command line or the environment; main's own credential-resolution failure
\* happens exactly in the runs where the environment holds one field and the
\* command line gives only the other, never with a field missing from both.
ExactlyOneEach ==
    /\ is_some(EnvProjectId) # is_some(EnvCredentialsPath)
    /\ is_some(CliProjectId) = is_none(EnvProjectId)
    /\ is_some(CliCredentials) = is_none(EnvCredentialsPath)

C10_ResolutionFailureOnlyWhenSplit ==
    /\ ParsePassed =>
          /\ is_some(CliProjectId) \/ is_some(EnvProjectId)
          /\ is_some(CliCredentials) \/ is_some(EnvCredentialsPath)
          /\ is_some(options.environment.project_id) \/ is_some(environment.project_id)
          /\ is_some(options.environment.service_account_path)
                \/ is_some(environment.service_account_path)
    /\ ResolutionFailed => ExactlyOneEach
    /\ (ParsePassed /\ ExactlyOneEach /\ Did("context")) => ResolutionFailed

C10_Witness ==
    /\ ResolutionFailed
    /\ ExactlyOneEach
    /\ newCalls = <<>>

====
